---- MODULE Spec2Model ----
(***************************************************************************)
(* tylang: a Kaleidoscope-style front end.  The model covers the token     *)
(* interface of the Lexer, the recursive-descent / precedence-climbing     *)
(* parser (src/main.cpp), the lowering of the AST into a backend module    *)
(* (src/codegen.cpp) and the top-level driver that submits modules to the  *)
(* JIT engine (src/main.cpp).                                              *)
(*                                                                         *)
(* Numbers are fixed point: a number token carries NumVal in units of      *)
(* 1/Scale.  Names of definitions follow the source.                       *)
(***************************************************************************)
EXTENDS Integers, Sequences, FiniteSets, TLC

VARIABLES
  input,          \* the token stream the Lexer delivers (end token after it)
  pos,            \* index of the current token (CurTok) in input
  build,          \* what the compiled LogErrorV does when it is called
  pc,             \* position of the driver
  TheModule,      \* the open module, or NoModule between addModule and re-open
  nextModuleId,   \* identity of the next module object to be created
  NamedValues,    \* name -> value handle (std::map; a null handle is an entry)
  FunctionProtos, \* name -> prototype
  TheJIT,         \* modules loaded in the engine, in order of submission
  submitted,      \* identities of all modules ever handed to the engine
  H,              \* handle of the one-shot module of the running bare expression
  last,           \* what the handler of the most recent unit did
  hist            \* what the session has processed so far

vars == <<input, pos, build, pc, TheModule, nextModuleId, NamedValues,
          FunctionProtos, TheJIT, submitted, H, last, hist>>

----------------------------------------------------------------------------
(* Bounds of the model. *)

\* Largest number of top-level units in one session.
MaxUnits == 3

\* Fixed-point scale of number tokens: NumVal = v / Scale.
Scale == 10

----------------------------------------------------------------------------
(* Tokens: enum Token plus the payload fields of class Lexer. *)

TokEof        == [k |-> "tok_eof",        s |-> "", v |-> 0]
TokDef        == [k |-> "tok_def",        s |-> "def", v |-> 0]
TokExtern     == [k |-> "tok_extern",     s |-> "extern", v |-> 0]
TokIdentifier(str) == [k |-> "tok_identifier", s |-> str, v |-> 0]
TokNumber(val) == [k |-> "tok_number",    s |-> "", v |-> val]
TokChar(c)    == [k |-> "char",           s |-> c, v |-> 0]

\* Lexer::getCurrentToken, with the stream position p as the lexer's state.
getCurrentToken(p) == IF p > Len(input) THEN TokEof ELSE input[p]

\* Lexer::getNextToken: the end token is returned again and again.
getNextToken(p) == IF p > Len(input) THEN p ELSE p + 1

\* Lexer::getIdentifierStr.
getIdentifierStr(p) == getCurrentToken(p).s

\* Lexer::getNumberVal: declared int, so the double NumVal is truncated.
getNumberVal(p) == getCurrentToken(p).v \div Scale

IsChar(p, c) == getCurrentToken(p).k = "char" /\ getCurrentToken(p).s = c

----------------------------------------------------------------------------
(* AST nodes (class ExprAST and friends). *)

NullAST == [node |-> "null"]
NumberExprAST(val) == [node |-> "Number", val |-> val]
VariableExprAST(name) == [node |-> "Variable", name |-> name]
BinaryExprAST(op, LHS, RHS) == [node |-> "Binary", op |-> op, LHS |-> LHS, RHS |-> RHS]
CallExprAST(callee, args) == [node |-> "Call", callee |-> callee, args |-> args]
PrototypeAST(name, args) == [node |-> "Prototype", name |-> name, args |-> args]
FunctionAST(proto, body) == [node |-> "Function", proto |-> proto, body |-> body]

----------------------------------------------------------------------------
(* Parser.  Every parse function takes the position of the current token   *)
(* and returns the node (NullAST for nullptr), the position it leaves the  *)
(* lexer at, and the diagnostics LogError printed.                         *)

Parsed(ast, p, diags) == [ok |-> TRUE, ast |-> ast, p |-> p, diags |-> diags]

\* LogError / LogErrorP: print the message, return nullptr.
LogError(str, p, diags) ==
  [ok |-> FALSE, ast |-> NullAST, p |-> p, diags |-> Append(diags, str)]

\* main(): the BinopPrecedence table; operator[] yields 0 for any other key.
BinopPrecedence(c) ==
  CASE c = "<" -> 10
    [] c = "+" -> 20
    [] c = "-" -> 30
    [] c = "*" -> 40
    [] OTHER   -> 0

\* A variant of getTokenPrecedence without the test  prec <= 0.
getTokenPrecedence_anyChar(p) ==
  IF getCurrentToken(p).k # "char" THEN -1
  ELSE BinopPrecedence(getCurrentToken(p).s)

getTokenPrecedence(p) ==
  IF getCurrentToken(p).k # "char" THEN -1
  ELSE IF BinopPrecedence(getCurrentToken(p).s) <= 0 THEN -1
  ELSE BinopPrecedence(getCurrentToken(p).s)

RECURSIVE ParseExpression(_, _)
RECURSIVE ParsePrimary(_, _)
RECURSIVE ParseBinOpRHS(_, _, _, _)
RECURSIVE ParseArgs(_, _, _)

ParseNumberExpr(p, diags) ==
  Parsed(NumberExprAST(getNumberVal(p)), getNextToken(p), diags)

\* ParseParenExpr after V = ParseExpression().
ParenClose(V) ==
  IF ~V.ok THEN V
  ELSE IF ~IsChar(V.p, ")") THEN LogError("expected ')'", V.p, V.diags)
  ELSE Parsed(V.ast, getNextToken(V.p), V.diags)

ParseParenExpr(p, diags) == ParenClose(ParseExpression(getNextToken(p), diags))

\* A variant of ParseArgsNext that lets a ',' close the list when ')'
\* follows it.
ParseArgsNext_trailingComma(args, arg) ==
  IF ~arg.ok THEN arg
  ELSE IF IsChar(arg.p, ")") THEN Parsed(Append(args, arg.ast), arg.p, arg.diags)
  ELSE IF ~IsChar(arg.p, ",")
       THEN LogError("Expected ')' or ',' in argument list", arg.p, arg.diags)
  ELSE IF IsChar(getNextToken(arg.p), ")")
       THEN Parsed(Append(args, arg.ast), getNextToken(arg.p), arg.diags)
  ELSE ParseArgs(getNextToken(arg.p), Append(args, arg.ast), arg.diags)

\* One pass of the while (1) loop of ParseIdentifierExpr, after
\* arg = ParseExpression().
ParseArgsNext(args, arg) ==
  IF ~arg.ok THEN arg
  ELSE IF IsChar(arg.p, ")") THEN Parsed(Append(args, arg.ast), arg.p, arg.diags)
  ELSE IF ~IsChar(arg.p, ",")
       THEN LogError("Expected ')' or ',' in argument list", arg.p, arg.diags)
  ELSE ParseArgs(getNextToken(arg.p), Append(args, arg.ast), arg.diags)

ParseArgs(p, args, diags) == ParseArgsNext(args, ParseExpression(p, diags))

\* ParseIdentifierExpr from "eat (" to the closing parenthesis.
ArgList(p, diags) ==
  IF ~IsChar(p, ")") THEN ParseArgs(p, <<>>, diags) ELSE Parsed(<<>>, p, diags)

\* ParseIdentifierExpr: "Eat the ')'" and build the call.
MakeCall(idName, args) ==
  IF ~args.ok THEN args
  ELSE Parsed(CallExprAST(idName, args.ast), getNextToken(args.p), args.diags)

ParseIdentifierExpr(p, diags) ==
  IF ~IsChar(getNextToken(p), "(")
  THEN Parsed(VariableExprAST(getIdentifierStr(p)), getNextToken(p), diags)
  ELSE MakeCall(getIdentifierStr(p), ArgList(getNextToken(getNextToken(p)), diags))

ParsePrimary(p, diags) ==
  CASE getCurrentToken(p).k = "tok_identifier" -> ParseIdentifierExpr(p, diags)
    [] getCurrentToken(p).k = "tok_number" -> ParseNumberExpr(p, diags)
    [] IsChar(p, "(") -> ParseParenExpr(p, diags)
    [] OTHER -> LogError("Unknown token when expecting an expression", p, diags)

\* ParseBinOpRHS: LHS = BinaryExprAST(binOp, LHS, RHS) and the next pass of
\* the loop.
BinOpFold(exprPrec, LHS, binOp, RHS) ==
  IF ~RHS.ok THEN RHS
  ELSE ParseBinOpRHS(exprPrec, BinaryExprAST(binOp, LHS, RHS.ast), RHS.p, RHS.diags)

\* A variant of BinOpAfterPrimary that also hands RHS to an operator of equal
\* precedence, which makes such operators group to the right.
BinOpAfterPrimary_rightAssoc(exprPrec, LHS, tokPrec, binOp, RHS) ==
  IF ~RHS.ok THEN RHS
  ELSE BinOpFold(exprPrec, LHS, binOp,
                 IF tokPrec <= getTokenPrecedence(RHS.p)
                 THEN ParseBinOpRHS(tokPrec, RHS.ast, RHS.p, RHS.diags)
                 ELSE RHS)

\* ParseBinOpRHS after RHS = ParsePrimary(): if the operator that follows
\* binds tighter than binOp, it takes RHS as its left operand.
BinOpAfterPrimary(exprPrec, LHS, tokPrec, binOp, RHS) ==
  IF ~RHS.ok THEN RHS
  ELSE BinOpFold(exprPrec, LHS, binOp,
                 IF tokPrec < getTokenPrecedence(RHS.p)
                 THEN ParseBinOpRHS(tokPrec + 1, RHS.ast, RHS.p, RHS.diags)
                 ELSE RHS)

\* One call is one pass of the while (1) loop.
ParseBinOpRHS(exprPrec, LHS, p, diags) ==
  IF getTokenPrecedence(p) < exprPrec THEN Parsed(LHS, p, diags)
  ELSE BinOpAfterPrimary(exprPrec, LHS, getTokenPrecedence(p), getCurrentToken(p).s,
                         ParsePrimary(getNextToken(p), diags))

\* ParseExpression after LHS = ParsePrimary().
ExpressionAfterPrimary(LHS) ==
  IF ~LHS.ok THEN LHS ELSE ParseBinOpRHS(0, LHS.ast, LHS.p, LHS.diags)

ParseExpression(p, diags) == ExpressionAfterPrimary(ParsePrimary(p, diags))

\* The while loop of ParsePrototype: getNextToken, then test for identifier.
RECURSIVE ParseArgNames(_, _)
ParseArgNames(p, argNames) ==
  IF getCurrentToken(getNextToken(p)).k = "tok_identifier"
  THEN ParseArgNames(getNextToken(p),
                     Append(argNames, getIdentifierStr(getNextToken(p))))
  ELSE [argNames |-> argNames, p |-> getNextToken(p)]

\* ParsePrototype after the loop over the argument names.
PrototypeClose(funcName, a, diags) ==
  IF ~IsChar(a.p, ")") THEN LogError("Expected ')' in prototype", a.p, diags)
  ELSE Parsed(PrototypeAST(funcName, a.argNames), getNextToken(a.p), diags)

ParsePrototype(p, diags) ==
  IF getCurrentToken(p).k # "tok_identifier"
  THEN LogError("Expected function name in prototype", p, diags)
  ELSE IF ~IsChar(getNextToken(p), "(")
  THEN LogError("Expected '(' in prototype but found", getNextToken(p), diags)
  ELSE PrototypeClose(getIdentifierStr(p), ParseArgNames(getNextToken(p), <<>>), diags)

\* ParseDefinition after E = ParseExpression().
MakeFunction(Proto, E) ==
  IF E.ok THEN Parsed(FunctionAST(Proto.ast, E.ast), E.p, E.diags) ELSE E

\* ParseDefinition after Proto = ParsePrototype().
DefinitionBody(Proto) ==
  IF ~Proto.ok THEN Proto
  ELSE MakeFunction(Proto, ParseExpression(Proto.p, Proto.diags))

ParseDefinition(p, diags) == DefinitionBody(ParsePrototype(getNextToken(p), diags))

ParseExtern(p, diags) == ParsePrototype(getNextToken(p), diags)

\* ParseTopLevelExpr after E = ParseExpression(): the anonymous prototype.
MakeAnonymous(E) ==
  IF E.ok
  THEN Parsed(FunctionAST(PrototypeAST("__anon_expr", <<>>), E.ast), E.p, E.diags)
  ELSE E

ParseTopLevelExpr(p, diags) == MakeAnonymous(ParseExpression(p, diags))

----------------------------------------------------------------------------
(* The backend module (llvm::Module) as far as the front end uses it.      *)
(* A function is identified inside its module by (name, uniq): creating a  *)
(* function under a name the module already holds keeps the older function *)
(* under the plain name (uniq = 0) and renames the new one.                *)

NoModule == [id |-> 0, funcs |-> <<>>, lastUnique |-> 0]
NewModule(id) == [id |-> id, funcs |-> <<>>, lastUnique |-> 0]

NoFunc == [name |-> "", uniq |-> -1]
NullValue == [k |-> "null", m |-> 0, f |-> "", u |-> 0, i |-> 0]
ConstantFP(val) == [k |-> "const", m |-> 0, f |-> "", u |-> 0, i |-> val]
Argument(m, F, i) == [k |-> "arg", m |-> m, f |-> F.name, u |-> F.uniq, i |-> i]
InstValue(m, F, i) == [k |-> "inst", m |-> m, f |-> F.name, u |-> F.uniq, i |-> i]

\* Index in mod.funcs of the function (name, uniq), 0 when there is none.
FuncIndex(mod, name, uniq) ==
  IF \E i \in 1..Len(mod.funcs) : mod.funcs[i].name = name /\ mod.funcs[i].uniq = uniq
  THEN CHOOSE i \in 1..Len(mod.funcs) :
         mod.funcs[i].name = name /\ mod.funcs[i].uniq = uniq
  ELSE 0

\* Module::getFunction: the function that owns the plain name.
ModuleGetFunction(mod, name) ==
  IF FuncIndex(mod, name, 0) = 0 THEN NoFunc ELSE [name |-> name, uniq |-> 0]

\* Function::arg_size.
arg_size(mod, F) == Len(mod.funcs[FuncIndex(mod, F.name, F.uniq)].args)

\* Events of one lowering run, in order (a record of what the code did).
Event(ev, node, name, n) == [ev |-> ev, node |-> node, name |-> name, n |-> n]

\* Every step of lowering works on a record st = [mod, named, protos, live,
\* trace]; live is FALSE from the moment a call never returns, and then no
\* step has any effect.
Log(st, e) == IF st.live THEN [st EXCEPT !.trace = Append(@, e)] ELSE st

\* LogErrorV calls itself before anything else: unbounded recursion with no
\* side effect.  The build decides what that does: the call is dropped and
\* nullptr returned, the stack overflows, or the recursion is turned into a
\* loop that never ends.
LogErrorV(st, Str) ==
  IF ~st.live THEN st
  ELSE IF build = "returns" THEN Log(st, Event("LogErrorV", "", Str, 0))
  ELSE [Log(st, Event("LogErrorV", "", Str, 0)) EXCEPT !.live = FALSE]

\* llvm::Function::Create(FT, ExternalLinkage, name, TheModule.get()).
FunctionCreate(st, name, args, uniq) ==
  IF ~st.live THEN [f |-> NoFunc, st |-> st]
  ELSE [f |-> [name |-> name, uniq |-> uniq],
        st |-> [st EXCEPT !.mod.funcs =
                            Append(@, [name |-> name, uniq |-> uniq, args |-> args,
                                       hasBody |-> FALSE, insts |-> <<>>]),
                          !.mod.lastUnique = IF uniq = 0 THEN @ ELSE uniq]]

\* PrototypeAST::codegen.
PrototypeASTcodegen(proto, st) ==
  FunctionCreate(st, proto.name, proto.args,
                 IF FuncIndex(st.mod, proto.name, 0) # 0
                 THEN st.mod.lastUnique + 1 ELSE 0)

\* getFunction: the open module first, then the prototype table.
getFunction(funcName, st) ==
  IF ModuleGetFunction(st.mod, funcName) # NoFunc
  THEN [f |-> ModuleGetFunction(st.mod, funcName), st |-> st]
  ELSE IF funcName \in DOMAIN st.protos
  THEN PrototypeASTcodegen(st.protos[funcName], st)
  ELSE [f |-> NoFunc, st |-> st]

\* Builder.Create...: append an instruction at the insertion point, the end
\* of the entry block of F.
BuilderCreate(st, F, op, callee, ops) ==
  IF ~st.live THEN [v |-> NullValue, st |-> st]
  ELSE [v |-> InstValue(st.mod.id, F,
                        Len(st.mod.funcs[FuncIndex(st.mod, F.name, F.uniq)].insts) + 1),
        st |-> Log([st EXCEPT !.mod.funcs[FuncIndex(st.mod, F.name, F.uniq)].insts =
                                Append(@, [op |-> op, callee |-> callee, ops |-> ops])],
                   Event("emit", op, callee, Len(ops)))]

RECURSIVE ExprASTcodegen(_, _, _)
RECURSIVE CallArgs(_, _, _, _, _)

NumberExprASTcodegen(e, F, st) ==
  [v |-> ConstantFP(e.val), st |-> Log(st, Event("enter", "Number", "", e.val))]

\* std::map::operator[]: an absent key is inserted with a null value.
NamedValuesIndex(st, name) ==
  IF st.live /\ name \notin DOMAIN st.named
  THEN [st EXCEPT !.named = @ @@ (name :> NullValue)] ELSE st

\* VariableExprAST::codegen after V = NamedValues[name].
VariableValue(e, st) ==
  IF ~st.live THEN [v |-> NullValue, st |-> st]
  ELSE [v |-> st.named[e.name],
        st |-> IF st.named[e.name] = NullValue
               THEN LogErrorV(st, "Unknown variable name") ELSE st]

VariableExprASTcodegen(e, F, st) ==
  VariableValue(e, NamedValuesIndex(Log(st, Event("enter", "Variable", e.name, 0)),
                                    e.name))

\* BinaryExprAST::codegen: the CreateUIToFP that follows CreateFCmpULT.
BoolToDouble(F, L) == BuilderCreate(L.st, F, "uitofp", "", <<L.v>>)

\* BinaryExprAST::codegen after both operands have been lowered.
BinaryEmit(e, F, Lv, R) ==
  IF Lv = NullValue \/ R.v = NullValue THEN [v |-> NullValue, st |-> R.st]
  ELSE CASE e.op = "+" -> BuilderCreate(R.st, F, "fadd", "", <<Lv, R.v>>)
         [] e.op = "-" -> BuilderCreate(R.st, F, "fsub", "", <<Lv, R.v>>)
         [] e.op = "*" -> BuilderCreate(R.st, F, "fmul", "", <<Lv, R.v>>)
         [] e.op = "<" ->
              BoolToDouble(F, BuilderCreate(R.st, F, "fcmp_ult", "", <<Lv, R.v>>))
         [] OTHER -> [v |-> NullValue,
                      st |-> LogErrorV(R.st, "invalid binary operator")]

\* R = RHS->codegen() is called whatever L is.
BinaryRHS(e, F, L) == BinaryEmit(e, F, L.v, ExprASTcodegen(e.RHS, F, L.st))

BinaryExprASTcodegen(e, F, st) ==
  BinaryRHS(e, F, ExprASTcodegen(e.LHS, F, Log(st, Event("enter", "Binary", e.op, 0))))

\* One pass of the for loop of CallExprAST::codegen, after args[i]->codegen().
CallArgsNext(args, i, ArgsV, F, a) ==
  IF a.v = NullValue THEN [ok |-> FALSE, ArgsV |-> ArgsV, st |-> a.st]
  ELSE CallArgs(args, i + 1, Append(ArgsV, a.v), F, a.st)

CallArgs(args, i, ArgsV, F, st) ==
  IF i > Len(args) THEN [ok |-> TRUE, ArgsV |-> ArgsV, st |-> st]
  ELSE CallArgsNext(args, i, ArgsV, F, ExprASTcodegen(args[i], F, st))

\* CallExprAST::codegen after the loop over the arguments.
CallEmit(e, F, a) ==
  IF ~a.ok THEN [v |-> NullValue, st |-> a.st]
  ELSE BuilderCreate(a.st, F, "call", e.callee, a.ArgsV)

\* CallExprAST::codegen after CalleeF = getFunction(callee).
CallResolved(e, F, CalleeF) ==
  IF ~CalleeF.st.live THEN [v |-> NullValue, st |-> CalleeF.st]
  ELSE IF CalleeF.f = NoFunc
  THEN [v |-> NullValue, st |-> LogErrorV(CalleeF.st, "Unknown function referenced")]
  ELSE IF arg_size(CalleeF.st.mod, CalleeF.f) # Len(e.args)
  THEN [v |-> NullValue, st |-> LogErrorV(CalleeF.st, "Incorrect number of arguments")]
  ELSE CallEmit(e, F, CallArgs(e.args, 1, <<>>, F, CalleeF.st))

\* The return of CallExprAST::codegen, recorded.
CallReturn(e, r) ==
  [v |-> r.v,
   st |-> Log(r.st, Event("exit", "Call", e.callee, IF r.v = NullValue THEN 0 ELSE 1))]

\* A variant of CallExprAST::codegen that looks for the callee in the open
\* module only.
CallExprASTcodegen_moduleOnly(e, F, st) ==
  CallReturn(e, CallResolved(e, F,
     [f |-> ModuleGetFunction(st.mod, e.callee),
      st |-> Log(st, Event("enter", "Call", e.callee, Len(e.args)))]))

CallExprASTcodegen(e, F, st) ==
  CallReturn(e, CallResolved(e, F,
     getFunction(e.callee, Log(st, Event("enter", "Call", e.callee, Len(e.args))))))

\* The virtual codegen() of an expression node.
ExprASTcodegen(e, F, st) ==
  IF ~st.live THEN [v |-> NullValue, st |-> st]
  ELSE CASE e.node = "Number" -> NumberExprASTcodegen(e, F, st)
         [] e.node = "Variable" -> VariableExprASTcodegen(e, F, st)
         [] e.node = "Binary" -> BinaryExprASTcodegen(e, F, st)
         [] e.node = "Call" -> CallExprASTcodegen(e, F, st)

\* FunctionProtos[name] = std::move(proto).
SetProto(st, proto) ==
  [st EXCEPT !.protos = [n \in DOMAIN @ \cup {proto.name} |->
                           IF n = proto.name THEN proto ELSE @[n]]]

\* NamedValues.clear(), then one entry per argument of theFunction, under
\* the name the argument has in the module.
RECURSIVE RecordArguments(_, _, _, _)
RecordArguments(m, F, args, i) ==
  IF i = 0 THEN << >>
  ELSE RecordArguments(m, F, args, i - 1) @@ (args[i] :> Argument(m, F, i))

\* The named-value table and the function being built, as they are when
\* body->codegen() is called.
AtEntry(st, F) == [st EXCEPT !.entry = [started |-> TRUE, named |-> st.named, F |-> F]]

\* FunctionAST::codegen from BasicBlock::Create to the filling of
\* NamedValues.
EntryBlock(st, F) ==
  AtEntry(Log([st EXCEPT !.mod.funcs[FuncIndex(st.mod, F.name, F.uniq)].hasBody = TRUE,
                         !.named = RecordArguments(st.mod.id, F,
                                      st.mod.funcs[FuncIndex(st.mod, F.name, F.uniq)].args,
                                      arg_size(st.mod, F))],
              Event("body", "Function", F.name, arg_size(st.mod, F))),
          F)

\* theFunction->eraseFromParent().
eraseFromParent(st, F) ==
  IF ~st.live THEN st
  ELSE [st EXCEPT !.mod.funcs =
          [j \in 1..(Len(@) - 1) |->
             IF j < FuncIndex(st.mod, F.name, F.uniq) THEN @[j] ELSE @[j + 1]]]

\* FunctionAST::codegen after RetVal = body->codegen().
FunctionFinish(theFunction, RetVal) ==
  IF ~RetVal.st.live THEN [f |-> NoFunc, st |-> RetVal.st]
  ELSE IF RetVal.v # NullValue
  THEN [f |-> theFunction,
        st |-> BuilderCreate(RetVal.st, theFunction, "ret", "", <<RetVal.v>>).st]
  ELSE [f |-> NoFunc, st |-> eraseFromParent(RetVal.st, theFunction)]

\* FunctionAST::codegen after theFunction = getFunction(P.getName()).
FunctionBody(fn, g) ==
  IF g.f = NoFunc THEN [f |-> NoFunc, st |-> g.st]
  ELSE FunctionFinish(g.f, ExprASTcodegen(fn.body, g.f, EntryBlock(g.st, g.f)))

FunctionASTcodegen(fn, st) ==
  FunctionBody(fn, getFunction(fn.proto.name, SetProto(st, fn.proto)))

----------------------------------------------------------------------------
(* The JIT engine (KaleidoscopeJIT), by its interface: modules are added,  *)
(* removed by handle, and a symbol is looked up in the loaded modules, the *)
(* most recently added first.                                              *)

addModule(jit, M) == Append(jit, M)

removeModule(jit, h) == SelectSeq(jit, LAMBDA M : M.id # h)

Defines(M, name) ==
  FuncIndex(M, name, 0) # 0 /\ M.funcs[FuncIndex(M, name, 0)].hasBody

\* Index in jit of the module that supplies name, 0 when none does.
findSymbol(jit, name) ==
  IF \E i \in 1..Len(jit) : Defines(jit[i], name)
  THEN CHOOSE i \in 1..Len(jit) :
         Defines(jit[i], name) /\ \A j \in (i + 1)..Len(jit) : ~Defines(jit[j], name)
  ELSE 0

\* Running native code: the entry block of a function is executed
\* instruction by instruction.  A call binds to the definition in its own
\* module or else to the engine's symbol; the language has no branches, so a
\* function entered while it is running never returns.
Value(how, v) == [how |-> how, v |-> v]

RECURSIVE Run(_, _, _, _, _)
RECURSIVE RunInsts(_, _, _, _, _, _, _)

Operand(o, argv, vals) ==
  CASE o.k = "const" -> Value("value", o.i)
    [] o.k = "arg" -> IF o.i <= Len(argv) THEN argv[o.i] ELSE Value("garbage", 0)
    [] o.k = "inst" -> vals[o.i]
    [] OTHER -> Value("garbage", 0)

Operands(ops, argv, vals) == [i \in 1..Len(ops) |-> Operand(ops[i], argv, vals)]

Arith(op, a, b) ==
  IF a.how # "value" \/ b.how # "value" THEN Value("garbage", 0)
  ELSE CASE op = "fadd" -> Value("value", a.v + b.v)
         [] op = "fsub" -> Value("value", a.v - b.v)
         [] op = "fmul" -> Value("value", a.v * b.v)
         [] op = "fcmp_ult" -> Value("value", IF a.v < b.v THEN 1 ELSE 0)

\* The module a call to callee made from module mi runs in, 0 when the
\* symbol cannot be resolved.
Resolve(jit, mi, callee) ==
  IF Defines(jit[mi], callee) THEN mi ELSE findSymbol(jit, callee)

Execute(jit, mi, inst, o, stack) ==
  CASE inst.op \in {"ret", "uitofp"} -> o[1]
    [] inst.op = "call" ->
         IF Resolve(jit, mi, inst.callee) = 0 THEN Value("unresolved", 0)
         ELSE Run(jit, Resolve(jit, mi, inst.callee), inst.callee, o, stack)
    [] OTHER -> Arith(inst.op, o[1], o[2])

RunNext(jit, mi, fn, argv, i, vals, stack, r) ==
  IF fn.insts[i].op = "ret" \/ r.how \in {"unresolved", "overflow"} THEN r
  ELSE RunInsts(jit, mi, fn, argv, i + 1, Append(vals, r), stack)

RunInsts(jit, mi, fn, argv, i, vals, stack) ==
  IF i > Len(fn.insts) THEN Value("garbage", 0)
  ELSE RunNext(jit, mi, fn, argv, i, vals, stack,
               Execute(jit, mi, fn.insts[i], Operands(fn.insts[i].ops, argv, vals),
                       stack))

Run(jit, mi, name, argv, stack) ==
  IF <<jit[mi].id, name>> \in stack THEN Value("overflow", 0)
  ELSE RunInsts(jit, mi, jit[mi].funcs[FuncIndex(jit[mi], name, 0)], argv, 1, <<>>,
                stack \cup {<<jit[mi].id, name>>})

----------------------------------------------------------------------------
(* Source texts.  A session reads up to MaxUnits units, each drawn from    *)
(* Units; the units cover definitions, externs, bare expressions, `;` and  *)
(* texts that fail to parse or to lower.                                   *)

Id(str) == TokIdentifier(str)
Num(n) == TokNumber(n * Scale)
Ch(c) == TokChar(c)

Units ==
  { <<TokDef, Id("f"), Ch("("), Id("x"), Ch(")"), Id("x")>>,              \* def f(x) x
    <<TokDef, Id("g"), Ch("("), Id("y"), Ch(")"),
      Id("f"), Ch("("), Id("y"), Ch(")")>>,                               \* def g(y) f(y)
    <<TokDef, Id("f"), Ch("("), Id("x"), Ch(")"), Id("y")>>,              \* def f(x) y
    <<TokExtern, Id("f"), Ch("("), Id("x"), Ch(")")>>,                    \* extern f(x)
    <<TokExtern, Id("f"), Ch("("), Id("x"), Id("y"), Ch(")")>>,           \* extern f(x y)
    <<Id("f"), Ch("("), TokNumber(4 * Scale + Scale \div 2), Ch(")")>>,   \* f(4.5)
    <<Id("f"), Ch("("), Num(1), Ch(","), Num(2), Ch(")")>>,               \* f(1, 2)
    <<Id("y")>>,                                                          \* y
    <<Num(4), Ch("+"), Num(5), Ch(";")>>,                                 \* 4+5;
    <<TokDef, Num(1)>>,                                                   \* def 1
    <<Id("f"), Ch("("), Num(1), Ch(","), Ch(")")>>,                       \* f(1,)
    <<Num(1), Ch("+"), Num(2), Ch("/"), Num(3)>> }                        \* 1+2/3

RECURSIVE Programs(_)
Programs(n) ==
  IF n = 0 THEN {<<>>}
  ELSE Programs(n - 1) \cup {p \o u : p \in Programs(n - 1), u \in Units}

----------------------------------------------------------------------------
(* The driver. *)

NoResult == Value("none", 0)

\* No function body has been entered.
NoEntry == [started |-> FALSE, named |-> << >>, F |-> NoFunc]

\* The record of one handler: what it parsed, where the parser started and
\* stopped, how the lowering ended, how many tokens the handler dropped
\* afterwards, the events of the lowering, the named-value table at the
\* entry of the body, the calls made to the engine, the value printed.
NoLast == [kind |-> "none", parsed |-> FALSE, ast |-> NullAST, diags |-> <<>>,
           start |-> 0, stop |-> 0, lowered |-> "none", discards |-> 0,
           trace |-> <<>>, entry |-> NoEntry, engine |-> <<>>, result |-> NoResult]

\* The record of the session: the (name, parameter count) of every extern
\* processed and of every prototype stored in FunctionProtos, and the
\* modules submitted for definitions.
NoHist == [externs |-> {}, protos |-> {}, resident |-> {}]

Builds == {"returns", "overflow", "hang"}

Init ==
  /\ input \in Programs(MaxUnits)
  /\ pos = 1                       \* main() primes the first token
  /\ build \in Builds
  /\ pc = "MainLoop"
  /\ TheModule = NewModule(1)      \* InitializeModuleAndPassManager in main()
  /\ nextModuleId = 2
  /\ NamedValues = << >>
  /\ FunctionProtos = << >>
  /\ TheJIT = << >>
  /\ submitted = {}
  /\ H = 0
  /\ last = NoLast
  /\ hist = NoHist

LowerState == [mod |-> TheModule, named |-> NamedValues, protos |-> FunctionProtos,
               live |-> TRUE, trace |-> <<>>, entry |-> NoEntry]

\* Where the driver is once LogErrorV has not returned.
Died == IF build = "overflow" THEN "crashed" ELSE "hung"

Lowered(c) == IF ~c.st.live THEN "diverged" ELSE IF c.f # NoFunc THEN "ok" ELSE "null"

Signature(proto) == <<proto.name, Len(proto.args)>>

\* A variant of SkipToken that leaves the current token in place.
SkipToken_none(kind, r) ==
  /\ pos' = r.p
  /\ pc' = "MainLoop"
  /\ last' = [NoLast EXCEPT !.kind = kind, !.diags = r.diags, !.start = pos,
                            !.stop = r.p]
  /\ UNCHANGED <<TheModule, NamedValues, FunctionProtos, hist>>

\* The else branch of a handler, taken when the parse failed: one call of
\* lexer.getNextToken(), and back to the loop.
SkipToken(kind, r) ==
  /\ pos' = getNextToken(r.p)
  /\ pc' = "MainLoop"
  /\ last' = [NoLast EXCEPT !.kind = kind, !.diags = r.diags, !.start = pos,
                            !.stop = r.p, !.discards = 1]
  /\ UNCHANGED <<TheModule, NamedValues, FunctionProtos, hist>>

\* A handler whose parse succeeded and whose lowering ended as c; next is
\* where the handler goes on when the lowering returned a function.
AfterCodegen(kind, r, c, next) ==
  /\ pos' = r.p
  /\ TheModule' = c.st.mod
  /\ NamedValues' = c.st.named
  /\ FunctionProtos' = c.st.protos
  /\ pc' = IF ~c.st.live THEN Died ELSE IF c.f # NoFunc THEN next ELSE "MainLoop"
  /\ last' = [NoLast EXCEPT !.kind = kind, !.parsed = TRUE, !.ast = r.ast,
                            !.diags = r.diags, !.start = pos, !.stop = r.p,
                            !.lowered = Lowered(c), !.trace = c.st.trace,
                            !.entry = c.st.entry]

\* if (auto FnAST = Parse...()) { if (auto *FnIR = FnAST->codegen()) ... }
\* else getNextToken, of HandleDefinition and HandleTopLevelExpression.
HandleFunction(kind, FnAST, next) ==
  IF FnAST.ok
  THEN /\ AfterCodegen(kind, FnAST, FunctionASTcodegen(FnAST.ast, LowerState), next)
       /\ hist' = [hist EXCEPT !.protos = @ \cup {Signature(FnAST.ast.proto)}]
  ELSE SkipToken(kind, FnAST)

\* case ';' of MainLoop.
Semicolon ==
  /\ pc = "MainLoop"
  /\ IsChar(pos, ";")
  /\ pos' = getNextToken(pos)
  /\ last' = [NoLast EXCEPT !.kind = "semicolon"]
  /\ UNCHANGED <<input, build, pc, TheModule, nextModuleId, NamedValues,
                 FunctionProtos, TheJIT, submitted, H, hist>>

\* case tok_eof of MainLoop: the loop and main() return.
EndOfInput ==
  /\ pc = "MainLoop"
  /\ getCurrentToken(pos).k = "tok_eof"
  /\ pc' = "exited"
  /\ UNCHANGED <<input, pos, build, TheModule, nextModuleId, NamedValues,
                 FunctionProtos, TheJIT, submitted, H, last, hist>>

\* HandleDefinition up to the test of FnIR.
HandleDefinition ==
  /\ pc = "MainLoop"
  /\ getCurrentToken(pos).k = "tok_def"
  /\ HandleFunction("def", ParseDefinition(pos, <<>>), "def_addModule")
  /\ UNCHANGED <<input, build, nextModuleId, TheJIT, submitted, H>>

\* A variant of SubmitModule that hands the engine the module and keeps it
\* open as well.
SubmitModule_shared(next) ==
  /\ TheJIT' = addModule(TheJIT, TheModule)
  /\ submitted' = submitted \cup {TheModule.id}
  /\ TheModule' = TheModule
  /\ last' = [last EXCEPT !.engine = Append(@, "addModule")]
  /\ pc' = next

\* TheJIT->addModule(std::move(TheModule)).
SubmitModule(next) ==
  /\ TheJIT' = addModule(TheJIT, TheModule)
  /\ submitted' = submitted \cup {TheModule.id}
  /\ TheModule' = NoModule
  /\ last' = [last EXCEPT !.engine = Append(@, "addModule")]
  /\ pc' = next

\* InitializeModuleAndPassManager.
InitializeModuleAndPassManager(next) ==
  /\ TheModule' = NewModule(nextModuleId)
  /\ nextModuleId' = nextModuleId + 1
  /\ last' = [last EXCEPT !.engine = Append(@, "newModule")]
  /\ pc' = next

\* HandleDefinition: TheJIT->addModule(std::move(TheModule)).
DefinitionAddModule ==
  /\ pc = "def_addModule"
  /\ SubmitModule("def_init")
  /\ hist' = [hist EXCEPT !.resident = @ \cup {TheModule}]
  /\ UNCHANGED <<input, pos, build, nextModuleId, NamedValues, FunctionProtos, H>>

\* HandleDefinition: InitializeModuleAndPassManager().
DefinitionNewModule ==
  /\ pc = "def_init"
  /\ InitializeModuleAndPassManager("MainLoop")
  /\ UNCHANGED <<input, pos, build, NamedValues, FunctionProtos, TheJIT, submitted,
                 H, hist>>

\* HandleExtern: FunctionProtos[name] = std::move(ProtoAST), after codegen.
StoreExtern(proto, FnIR) == [f |-> FnIR.f, st |-> SetProto(FnIR.st, proto)]

\* HandleExtern after ProtoAST = ParseExtern().
ExternParsed(ProtoAST) ==
  IF ProtoAST.ok
  THEN /\ AfterCodegen("extern", ProtoAST,
                       StoreExtern(ProtoAST.ast,
                                   PrototypeASTcodegen(ProtoAST.ast, LowerState)),
                       "MainLoop")
       /\ hist' = [hist EXCEPT !.externs = @ \cup {Signature(ProtoAST.ast)},
                               !.protos = @ \cup {Signature(ProtoAST.ast)}]
  ELSE SkipToken("extern", ProtoAST)

HandleExtern ==
  /\ pc = "MainLoop"
  /\ getCurrentToken(pos).k = "tok_extern"
  /\ ExternParsed(ParseExtern(pos, <<>>))
  /\ UNCHANGED <<input, build, nextModuleId, TheJIT, submitted, H>>

\* HandleTopLevelExpression up to the test of FnIR.
HandleTopLevelExpression ==
  /\ pc = "MainLoop"
  /\ getCurrentToken(pos).k \notin {"tok_eof", "tok_def", "tok_extern"}
  /\ ~IsChar(pos, ";")
  /\ HandleFunction("expr", ParseTopLevelExpr(pos, <<>>), "expr_addModule")
  /\ UNCHANGED <<input, build, nextModuleId, TheJIT, submitted, H>>

\* auto H = TheJIT->addModule(std::move(TheModule)).
ExpressionAddModule ==
  /\ pc = "expr_addModule"
  /\ H' = TheModule.id
  /\ SubmitModule("expr_init")
  /\ UNCHANGED <<input, pos, build, nextModuleId, NamedValues, FunctionProtos, hist>>

\* HandleTopLevelExpression: InitializeModuleAndPassManager().
ExpressionNewModule ==
  /\ pc = "expr_init"
  /\ InitializeModuleAndPassManager("expr_findSymbol")
  /\ UNCHANGED <<input, pos, build, NamedValues, FunctionProtos, TheJIT, submitted,
                 H, hist>>

\* TheJIT->findSymbol("__anon_expr") and the assert on it.
ExpressionFindSymbol ==
  /\ pc = "expr_findSymbol"
  /\ pc' = IF findSymbol(TheJIT, "__anon_expr") = 0 THEN "crashed" ELSE "expr_call"
  /\ last' = [last EXCEPT !.engine = Append(@, "findSymbol")]
  /\ UNCHANGED <<input, pos, build, TheModule, nextModuleId, NamedValues,
                 FunctionProtos, TheJIT, submitted, H, hist>>

\* HandleTopLevelExpression after FP() returned r or failed to.
Called(r) ==
  /\ last' = [last EXCEPT !.result = r, !.engine = Append(@, "call")]
  /\ pc' = IF r.how \in {"unresolved", "overflow"} THEN "crashed"
           ELSE "expr_removeModule"

\* FP(): the anonymous function runs and its value is printed.  A symbol no
\* loaded module defines cannot be linked, and a function that calls itself
\* exhausts the stack.
ExpressionCall ==
  /\ pc = "expr_call"
  /\ Called(Run(TheJIT, findSymbol(TheJIT, "__anon_expr"), "__anon_expr", <<>>, {}))
  /\ UNCHANGED <<input, pos, build, TheModule, nextModuleId, NamedValues,
                 FunctionProtos, TheJIT, submitted, H, hist>>

\* A variant of ExpressionRemoveModule that unloads the oldest module.
ExpressionRemoveModule_oldest ==
  /\ pc = "expr_removeModule"
  /\ TheJIT' = removeModule(TheJIT, TheJIT[1].id)
  /\ last' = [last EXCEPT !.engine = Append(@, "removeModule")]
  /\ pc' = "expr_print"
  /\ UNCHANGED <<input, pos, build, TheModule, nextModuleId, NamedValues,
                 FunctionProtos, submitted, H, hist>>

\* A variant of ExpressionRemoveModule that unloads nothing.
ExpressionRemoveModule_kept ==
  /\ pc = "expr_removeModule"
  /\ last' = [last EXCEPT !.engine = Append(@, "removeModule")]
  /\ pc' = "expr_print"
  /\ UNCHANGED <<input, pos, build, TheModule, nextModuleId, NamedValues,
                 FunctionProtos, TheJIT, submitted, H, hist>>

\* TheJIT->removeModule(H).
ExpressionRemoveModule ==
  /\ pc = "expr_removeModule"
  /\ TheJIT' = removeModule(TheJIT, H)
  /\ last' = [last EXCEPT !.engine = Append(@, "removeModule")]
  /\ pc' = "expr_print"
  /\ UNCHANGED <<input, pos, build, TheModule, nextModuleId, NamedValues,
                 FunctionProtos, submitted, H, hist>>

\* FnIR->print(llvm::errs()): FnIR points into the module that was moved
\* into the engine and has just been removed from it.  Reading it either
\* goes unnoticed or faults.
ExpressionPrint ==
  /\ pc = "expr_print"
  /\ pc' \in {"MainLoop", "crashed"}
  /\ UNCHANGED <<input, pos, build, TheModule, nextModuleId, NamedValues,
                 FunctionProtos, TheJIT, submitted, H, last, hist>>

Next ==
  \/ Semicolon
  \/ EndOfInput
  \/ HandleDefinition
  \/ DefinitionAddModule
  \/ DefinitionNewModule
  \/ HandleExtern
  \/ HandleTopLevelExpression
  \/ ExpressionAddModule
  \/ ExpressionNewModule
  \/ ExpressionFindSymbol
  \/ ExpressionCall
  \/ ExpressionRemoveModule
  \/ ExpressionPrint

Spec == Init /\ [][Next]_vars

----------------------------------------------------------------------------
(* The parser alone, on every text  a op1 b op2 c. *)

Operators == {"<", "+", "-", "*"}

\* Primary expressions: their tokens and the node each is parsed to.
Primaries ==
  { [toks |-> <<Num(1)>>, ast |-> NumberExprAST(1)],
    [toks |-> <<Num(2)>>, ast |-> NumberExprAST(2)],
    [toks |-> <<Num(3)>>, ast |-> NumberExprAST(3)],
    [toks |-> <<Id("x")>>, ast |-> VariableExprAST("x")],
    [toks |-> <<Ch("("), Id("y"), Ch(")")>>, ast |-> VariableExprAST("y")],
    [toks |-> <<Id("f"), Ch("("), Ch(")")>>, ast |-> CallExprAST("f", <<>>)] }

Text(a, op1, b, op2, c) == a.toks \o <<Ch(op1)>> \o b.toks \o <<Ch(op2)>> \o c.toks

InitParse ==
  /\ input \in {Text(a, op1, b, op2, c) :
                  a \in Primaries, b \in Primaries, c \in Primaries,
                  op1 \in Operators, op2 \in Operators}
  /\ pos = 1
  /\ build = "returns"
  /\ pc = "parse"
  /\ TheModule = NewModule(1)
  /\ nextModuleId = 2
  /\ NamedValues = << >>
  /\ FunctionProtos = << >>
  /\ TheJIT = << >>
  /\ submitted = {}
  /\ H = 0
  /\ last = NoLast
  /\ hist = NoHist

\* The state after E = ParseExpression().
ExpressionParsed(E) ==
  /\ pos' = E.p
  /\ last' = [NoLast EXCEPT !.kind = "expr", !.parsed = E.ok, !.ast = E.ast,
                            !.diags = E.diags, !.start = pos, !.stop = E.p]
  /\ pc' = "parsed"

ParseOnly ==
  /\ pc = "parse"
  /\ ExpressionParsed(ParseExpression(pos, <<>>))
  /\ UNCHANGED <<input, build, TheModule, nextModuleId, NamedValues,
                 FunctionProtos, TheJIT, submitted, H, hist>>

SpecParse == InitParse /\ [][ParseOnly]_vars

----------------------------------------------------------------------------
(* The parser alone, on every call  f( items )  of up to MaxArgItems items, *)
(* each a number, a variable or a comma.                                    *)

\* Largest number of tokens between the parentheses.
MaxArgItems == 4

ArgItems == {Num(1), Id("x"), Ch(",")}

RECURSIVE ArgTexts(_)
ArgTexts(n) ==
  IF n = 0 THEN {<<>>}
  ELSE ArgTexts(n - 1) \cup {Append(t, i) : t \in ArgTexts(n - 1), i \in ArgItems}

InitArgs ==
  /\ input \in {<<Id("f"), Ch("(")>> \o t \o <<Ch(")")>> : t \in ArgTexts(MaxArgItems)}
  /\ pos = 1
  /\ build = "returns"
  /\ pc = "parse"
  /\ TheModule = NewModule(1)
  /\ nextModuleId = 2
  /\ NamedValues = << >>
  /\ FunctionProtos = << >>
  /\ TheJIT = << >>
  /\ submitted = {}
  /\ H = 0
  /\ last = NoLast
  /\ hist = NoHist

SpecArgs == InitArgs /\ [][ParseOnly]_vars

----------------------------------------------------------------------------
(* The lexer alone, on every text of up to MaxChars characters.  Here      *)
(* input holds the characters of the file, pos the number of characters    *)
(* read from it, and last the fields of the lexer: LastChar (the static of *)
(* gettok), IdentifierStr, NumVal (in units of 1/Scale), CurTok, the local *)
(* NumStr, and two counters: the calls of getc and of getNextToken.        *)

\* Longest text, in characters.
MaxChars == 4

\* Largest number of calls of getNextToken in one run.
MaxCalls == 6

Chars == {"a", "1", ".", " ", "#", "\n", "+"}

RECURSIVE Texts(_)
Texts(n) ==
  IF n = 0 THEN {<<>>}
  ELSE Texts(n - 1) \cup {Append(t, c) : t \in Texts(n - 1), c \in Chars}

isspace(c) == c \in {" ", "\n", "\r"}
isalpha(c) == c \in {"a"}
isdigit(c) == c \in {"1"}
isalnum(c) == isalpha(c) \/ isdigit(c)

DigitVal(c) == IF c = "1" THEN 1 ELSE 0

\* Lexer::getNextChar: getc(fp), which yields EOF at the end of the file.
getNextChar(L) ==
  IF L.fp < Len(input)
  THEN [L EXCEPT !.fp = @ + 1, !.LastChar = input[L.fp + 1], !.getc = @ + 1]
  ELSE [L EXCEPT !.LastChar = "EOF", !.getc = @ + 1]

\* strtod: the digits up to the first '.', then the digits after it (one
\* of them is kept at this Scale); the text stops counting at a second '.'.
RECURSIVE Digits(_, _, _)
Digits(str, i, acc) ==
  IF i > Len(str) \/ str[i] = "." THEN [v |-> acc, i |-> i]
  ELSE Digits(str, i + 1, acc * 10 + DigitVal(str[i]))

Fraction(str, ip) ==
  ip.v * Scale +
    (IF ip.i < Len(str) /\ str[ip.i + 1] # "."
     THEN (DigitVal(str[ip.i + 1]) * Scale) \div 10 ELSE 0)

strtod(str) == Fraction(str, Digits(str, 1, 0))

RECURSIVE gettok(_)
RECURSIVE SkipWhitespace(_)
RECURSIVE ReadIdentifier(_)
RECURSIVE ReadNumber(_)
RECURSIVE SkipComment(_)

\* while (isspace(LastChar)) LastChar = getNextChar();
SkipWhitespace(L) ==
  IF isspace(L.LastChar) THEN SkipWhitespace(getNextChar(L)) ELSE L

\* while (isalnum((LastChar = getNextChar()))) IdentifierStr += LastChar;
\* called with the next character already read.
ReadIdentifier(L) ==
  IF isalnum(L.LastChar)
  THEN ReadIdentifier(getNextChar([L EXCEPT !.IdentifierStr = @ \o L.LastChar]))
  ELSE L

\* The keywords are told from the identifiers.
Classify(L) ==
  [L EXCEPT !.CurTok = IF L.IdentifierStr = "def" THEN "tok_def"
                       ELSE IF L.IdentifierStr = "extern" THEN "tok_extern"
                       ELSE "tok_identifier"]

\* do { NumStr += LastChar; LastChar = getNextChar(); } while (...)
ReadNumberNext(L) ==
  IF isdigit(L.LastChar) \/ L.LastChar = "." THEN ReadNumber(L) ELSE L

ReadNumber(L) ==
  ReadNumberNext(getNextChar([L EXCEPT !.NumStr = Append(@, L.LastChar)]))

\* NumVal = strtod(NumStr.c_str(), 0); return tok_number;
NumberRead(L) ==
  [L EXCEPT !.NumVal = strtod(L.NumStr), !.NumStr = <<>>, !.CurTok = "tok_number"]

\* do LastChar = getNextChar(); while (LastChar is none of EOF, \n, \r)
SkipCommentNext(L) ==
  IF L.LastChar \notin {"EOF", "\n", "\r"} THEN SkipComment(L) ELSE L

SkipComment(L) == SkipCommentNext(getNextChar(L))

\* A variant of EofOrChar that asks the file for a character once more
\* when the end has been seen.
EofOrChar_readsOn(L) ==
  IF L.LastChar = "EOF" THEN [getNextChar(L) EXCEPT !.CurTok = "tok_eof"]
  ELSE getNextChar([L EXCEPT !.CurTok = L.LastChar])

\* gettok from the test for EOF on.
EofOrChar(L) ==
  IF L.LastChar = "EOF" THEN [L EXCEPT !.CurTok = "tok_eof"]
  ELSE getNextChar([L EXCEPT !.CurTok = L.LastChar])

\* gettok after the comment has been skipped.
AfterComment(L) == IF L.LastChar # "EOF" THEN gettok(L) ELSE EofOrChar(L)

\* gettok after the whitespace has been skipped.
Token(L) ==
  IF isalpha(L.LastChar)
  THEN Classify(ReadIdentifier(getNextChar([L EXCEPT !.IdentifierStr = L.LastChar])))
  ELSE IF isdigit(L.LastChar) \/ L.LastChar = "."
  THEN NumberRead(ReadNumber(L))
  ELSE IF L.LastChar = "#" THEN AfterComment(SkipComment(L))
  ELSE EofOrChar(L)

\* Lexer::gettok; the token it returns is left in CurTok, where
\* getNextToken stores it.
gettok(L) == Token(SkipWhitespace(L))

\* The accessors of the lexer, on its fields.
LexerIdentifierStr(L) == L.IdentifierStr
LexerNumberVal(L) == L.NumVal \div Scale
LexerCurrentToken(L) == L.CurTok

\* The lexer main() constructs: LastChar = ' '; CurTok and NumVal have no
\* value yet and are not read before getNextToken has set them.
NewLexer ==
  [fp |-> 0, LastChar |-> " ", IdentifierStr |-> "", NumVal |-> 0,
   CurTok |-> "none", NumStr |-> <<>>, getc |-> 0, calls |-> 0]

InitLex ==
  /\ input \in Texts(MaxChars)
  /\ pos = 0
  /\ build = "returns"
  /\ pc = "lex"
  /\ TheModule = NewModule(1)
  /\ nextModuleId = 2
  /\ NamedValues = << >>
  /\ FunctionProtos = << >>
  /\ TheJIT = << >>
  /\ submitted = {}
  /\ H = 0
  /\ last = NewLexer
  /\ hist = NoHist

\* The state after L = the lexer when gettok has returned.
TokenFetched(L) ==
  /\ last' = [L EXCEPT !.calls = @ + 1]
  /\ pos' = L.fp

\* Lexer::getNextToken: return CurTok = gettok().
LexerGetNextToken ==
  /\ pc = "lex"
  /\ last.calls < MaxCalls
  /\ TokenFetched(gettok(last))
  /\ UNCHANGED <<input, build, pc, TheModule, nextModuleId, NamedValues,
                 FunctionProtos, TheJIT, submitted, H, hist>>

SpecLex == InitLex /\ [][LexerGetNextToken]_vars

----------------------------------------------------------------------------
(* Properties. *)

Handlers == {"def", "extern", "expr"}

\* The i-th event of the latest lowering run enters a call of name with n
\* arguments.
EntersCall(i, name, n) == last.trace[i] = Event("enter", "Call", name, n)

\* The call entered at event i failed to resolve its callee or failed the
\* test of the argument count.
CallRejected(i) ==
  /\ i < Len(last.trace)
  /\ last.trace[i + 1].ev = "LogErrorV"
  /\ last.trace[i + 1].name \in {"Unknown function referenced",
                                 "Incorrect number of arguments"}

\* The latest lowering run emitted a call of name after event i.
CallEmitted(i, name, n) ==
  \E j \in (i + 1)..Len(last.trace) : last.trace[j] = Event("emit", "call", name, n)

\* The calls the latest unit makes to a function that an extern with the
\* same number of parameters has declared.
ExternCalls ==
  {c \in (DOMAIN last.trace) \X hist.externs :
     last.kind \in {"def", "expr"} /\ EntersCall(c[1], c[2][1], c[2][2])}

\* C1: when a definition is lowered for a name that a loaded module already
\* defines, the lowering returns no function, so the driver never stands
\* before the submission of a module for a name the engine already defines.
C1_RedefinitionRejected ==
  (last.kind = "def" /\ last.lowered = "ok" /\ pc = "def_addModule")
    => findSymbol(TheJIT, last.ast.proto.name) = 0

\* C2: whenever a lowering run reported an error through LogErrorV, the run
\* returned an absent result to the driver and the driver is neither stopped
\* nor stuck.
C2_LoweringErrorsReturn ==
  (\E i \in DOMAIN last.trace : last.trace[i].ev = "LogErrorV")
    => (last.lowered = "null" /\ pc \notin {"crashed", "hung"})

\* The fixed table of C3.
Prec(op) == CASE op = "<" -> 10 [] op = "+" -> 20 [] op = "-" -> 30 [] op = "*" -> 40

Grouping(a, op1, b, op2, c) ==
  IF Prec(op2) > Prec(op1)
  THEN BinaryExprAST(op1, a.ast, BinaryExprAST(op2, b.ast, c.ast))
  ELSE BinaryExprAST(op2, BinaryExprAST(op1, a.ast, b.ast), c.ast)

\* C3: ParseExpression on  a op1 b op2 c  consumes the whole text and yields
\* BinaryOp(op1, a, BinaryOp(op2, b, c)) exactly when op2 binds tighter than
\* op1, and BinaryOp(op2, BinaryOp(op1, a, b), c) otherwise.
C3_PrecedenceGrouping ==
  pc = "parsed" =>
    /\ last.parsed
    /\ pos = Len(input) + 1
    /\ \A a \in Primaries, b \in Primaries, c \in Primaries,
          op1 \in Operators, op2 \in Operators :
         input = Text(a, op1, b, op2, c) => last.ast = Grouping(a, op1, b, op2, c)

\* 1 - 2 - 3 has been parsed to (1 - 2) - 3.
C3_Witness ==
  /\ pc = "parsed"
  /\ input = <<Num(1), Ch("-"), Num(2), Ch("-"), Num(3)>>
  /\ last.ast = BinaryExprAST("-", BinaryExprAST("-", NumberExprAST(1),
                                                 NumberExprAST(2)),
                              NumberExprAST(3))

\* C4 as stated: once extern foo(p1 .. pn) has been processed and no loaded
\* module defines foo, every call of foo with n arguments in a later unit
\* resolves foo and passes the test of the argument count.
C4_ExternCallLowers ==
  \A c \in ExternCalls :
    findSymbol(TheJIT, c[2][1]) = 0 => ~CallRejected(c[1])

\* C4, amended: once extern foo(p1 .. pn) has been processed and every
\* prototype of foo processed in the session has n parameters, every call of
\* foo with n arguments in a later unit resolves foo, passes the test of the
\* argument count and is emitted; when the unit lowers, foo is declared in
\* the module the unit was lowered into.
C4_ExternCallLowersSameArity ==
  \A c \in ExternCalls :
    (\A q \in hist.protos : q[1] = c[2][1] => q[2] = c[2][2])
      => /\ ~CallRejected(c[1])
         /\ CallEmitted(c[1], c[2][1], c[2][2])
         /\ (last.lowered = "ok" /\ last.engine = <<>>)
              => FuncIndex(TheModule, c[2][1], 0) # 0

\* def g(y) f(y) has been lowered into a module opened after the one that
\* holds extern f(x), and no module defines f.
C4_Witness ==
  /\ last.kind = "def"
  /\ last.lowered = "ok"
  /\ pc = "def_addModule"
  /\ TheModule.id > 1
  /\ <<"f", 1>> \in hist.externs
  /\ findSymbol(TheJIT, "f") = 0
  /\ \E i \in DOMAIN last.trace : EntersCall(i, "f", 1) /\ CallEmitted(i, "f", 1)
  /\ FuncIndex(TheModule, "f", 0) # 0

\* C5: every arity error comes straight after the entry of the call, before
\* any argument is lowered or any instruction emitted, and is followed by
\* the return of an absent result from the call.
C5_ArityErrorReturnsAbsent ==
  \A i \in DOMAIN last.trace :
    (last.trace[i].ev = "LogErrorV"
       /\ last.trace[i].name = "Incorrect number of arguments")
      => /\ i > 1
         /\ last.trace[i - 1].ev = "enter"
         /\ last.trace[i - 1].node = "Call"
         /\ i < Len(last.trace)
         /\ last.trace[i + 1] = Event("exit", "Call", last.trace[i - 1].name, 0)

\* The instructions of the anonymous function the engine holds.
AnonInsts ==
  TheJIT[findSymbol(TheJIT, "__anon_expr")]
    .funcs[FuncIndex(TheJIT[findSymbol(TheJIT, "__anon_expr")], "__anon_expr", 0)].insts

\* C6: every module submitted for a definition is loaded, as it was
\* submitted; and when the anonymous function is about to run, each of its
\* calls to a function that such a module defines binds to such a module.
C6_DefinitionsStayLoaded ==
  /\ \A M \in hist.resident : \E i \in 1..Len(TheJIT) : TheJIT[i] = M
  /\ pc = "expr_call" =>
       \A k \in DOMAIN AnonInsts :
         (AnonInsts[k].op = "call"
            /\ \E M \in hist.resident : Defines(M, AnonInsts[k].callee))
           => /\ Resolve(TheJIT, findSymbol(TheJIT, "__anon_expr"),
                         AnonInsts[k].callee) # 0
              /\ TheJIT[Resolve(TheJIT, findSymbol(TheJIT, "__anon_expr"),
                                AnonInsts[k].callee)] \in hist.resident

\* f(4.5) has run against the module of def f(x) x, and its own module has
\* been unloaded.
C6_Witness ==
  /\ pc = "expr_print"
  /\ last.result.how = "value"
  /\ \E k \in DOMAIN last.trace : last.trace[k] = Event("emit", "call", "f", 1)
  /\ \E M \in hist.resident : Defines(M, "f")

\* The calls HandleTopLevelExpression makes once the lowering succeeded.
Steps == <<"addModule", "newModule", "findSymbol", "call", "removeModule">>

\* The loaded modules that define the anonymous function.
AnonModules == {i \in 1..Len(TheJIT) : Defines(TheJIT[i], "__anon_expr")}

\* C7: for a bare expression that lowered, the calls made so far are the
\* first ones of Steps, each made once and in that order, and all of them
\* once the unit is over; when the symbol has been resolved exactly one
\* loaded module, the submitted one, defines the anonymous function, and
\* whenever the driver is back in its loop no loaded module defines it.
C7_OneShotModule ==
  /\ (last.kind = "expr" /\ last.lowered = "ok") =>
       /\ last.engine = SubSeq(Steps, 1, Len(last.engine))
       /\ (pc = "expr_addModule") <=> (last.engine = <<>>)
       /\ pc = "expr_call" =>
            /\ last.engine = SubSeq(Steps, 1, 3)
            /\ Cardinality(AnonModules) = 1
            /\ TheJIT[findSymbol(TheJIT, "__anon_expr")].id = H
            /\ TheModule = NewModule(TheModule.id)
       /\ pc \in {"expr_print", "MainLoop", "exited"} => last.engine = Steps
  /\ pc \in {"expr_print", "MainLoop", "exited"} => AnonModules = {}

\* A bare expression has been run and the driver is back in its loop.
C7_Witness ==
  /\ last.kind = "expr"
  /\ last.lowered = "ok"
  /\ pc = "MainLoop"
  /\ last.engine = Steps
  /\ last.result.how = "value"
  /\ AnonModules = {}

\* C8: the open module has never been submitted; the driver is without an
\* open module only between a submission and the opening of the next
\* module, where nothing is lowered; and the engine holds submitted modules
\* only.
C8_OpenModuleNeverSubmitted ==
  /\ TheModule # NoModule => TheModule.id \notin submitted
  /\ (TheModule = NoModule) <=> (pc \in {"def_init", "expr_init"})
  /\ \A i \in 1..Len(TheJIT) : TheJIT[i].id \in submitted /\ TheJIT[i] # TheModule

\* A unit has been lowered into a module opened after a submission.
C8_Witness ==
  /\ submitted # {}
  /\ TheModule # NoModule
  /\ TheModule.funcs # <<>>
  /\ last.trace # <<>>

\* C9: after the lowering of a function has returned without a function
\* because its body failed to lower, the open module holds no function of
\* its name and the named-value table is empty.
C9_FailedFunctionLeavesNoTrace ==
  (last.kind \in {"def", "expr"} /\ last.parsed /\ last.lowered = "null")
    => /\ \A j \in 1..Len(TheModule.funcs) :
            TheModule.funcs[j].name # last.ast.proto.name
       /\ DOMAIN NamedValues = {}

C11_EndTokenIdempotent ==
  [][last.CurTok = "tok_eof" =>
       /\ last' = [last EXCEPT !.calls = @ + 1]
       /\ pos' = pos]_vars

\* The end of the input was reached inside a comment, and getNextToken has
\* been called twice more since.
C11_Witness ==
  /\ pc = "lex"
  /\ last.CurTok = "tok_eof"
  /\ last.calls >= 3
  /\ Len(input) >= 2
  /\ input[Len(input) - 1] = "#"
  /\ input[Len(input)] = "a"
  /\ last.getc = Len(input) + 1

\* C12: once getNextToken has fetched the token after an identifier, and
\* that token is not an identifier, getIdentifierStr no longer returns the
\* identifier's text; once it has fetched the token after a number (other
\* than zero), and that token is not a number, getNumberVal no longer
\* returns the number's value.
C12_PreviousTokenNotObservable ==
  [][/\ (last.CurTok = "tok_identifier" /\ last'.CurTok # "tok_identifier")
          => LexerIdentifierStr(last') # LexerIdentifierStr(last)
     /\ (last.CurTok = "tok_number" /\ last'.CurTok # "tok_number"
           /\ LexerNumberVal(last) # 0)
          => LexerNumberVal(last') # LexerNumberVal(last)]_vars

\* C13: when the body of a function starts lowering, the named-value table
\* holds exactly the parameter names of that function's own prototype, the
\* i-th of them bound to the i-th argument of the function being built.
C13_NamedValuesAreOwnParameters ==
  (last.kind \in {"def", "expr"} /\ last.entry.started) =>
    /\ DOMAIN last.entry.named = {last.ast.proto.args[i] :
                                    i \in 1..Len(last.ast.proto.args)}
    /\ \A i \in 1..Len(last.ast.proto.args) :
         /\ last.entry.named[last.ast.proto.args[i]].k = "arg"
         /\ last.entry.named[last.ast.proto.args[i]].f = last.entry.F.name
         /\ last.entry.named[last.ast.proto.args[i]].u = last.entry.F.uniq
         /\ last.entry.named[last.ast.proto.args[i]].i = i

\* The values of the number nodes of a tree, in source order.
RECURSIVE NumberNodes(_)
RECURSIVE NumberNodesOfArgs(_, _)
NumberNodesOfArgs(args, i) ==
  IF i > Len(args) THEN <<>>
  ELSE NumberNodes(args[i]) \o NumberNodesOfArgs(args, i + 1)

NumberNodes(e) ==
  CASE e.node = "Number" -> <<e.val>>
    [] e.node = "Binary" -> NumberNodes(e.LHS) \o NumberNodes(e.RHS)
    [] e.node = "Call" -> NumberNodesOfArgs(e.args, 1)
    [] e.node = "Function" -> NumberNodes(e.body)
    [] OTHER -> <<>>

\* The payloads (in units of 1/Scale) of the number tokens from position a
\* up to, not including, position b.
RECURSIVE NumberTokens(_, _)
NumberTokens(a, b) ==
  IF a >= b THEN <<>>
  ELSE (IF input[a].k = "tok_number" THEN <<input[a].v>> ELSE <<>>)
         \o NumberTokens(a + 1, b)

\* C14: the number nodes of a parsed unit carry, in order, the payloads of
\* the number tokens of the unit, fraction included.
C14_NumberValuePreserved ==
  (last.kind \in Handlers /\ last.parsed) =>
    [i \in 1..Len(NumberNodes(last.ast)) |-> NumberNodes(last.ast)[i] * Scale]
      = NumberTokens(last.start, last.stop)

\* The tokens between the parentheses of the call text.
ArgsBody == SubSeq(input, 3, Len(input) - 1)

\* Arguments separated by single commas: an argument at every odd place, a
\* comma at every even place, and an argument last.
Separated(t) ==
  /\ Len(t) % 2 = 1
  /\ \A i \in 1..Len(t) : (t[i] = Ch(",")) <=> (i % 2 = 0)

\* Arguments separated by commas, and one more comma after the last.
TrailingComma(t) ==
  /\ Len(t) >= 2
  /\ t[Len(t)] = Ch(",")
  /\ Separated(SubSeq(t, 1, Len(t) - 1))

\* C15 as stated: a call whose argument list ends in a comma fails to
\* parse with the diagnostic that expects ')' or ',', and f() parses to a
\* call without arguments.
C15_TrailingCommaExpectsCloseOrComma ==
  pc = "parsed" =>
    /\ TrailingComma(ArgsBody) =>
         (~last.parsed /\ last.diags = <<"Expected ')' or ',' in argument list">>)
    /\ ArgsBody = <<>> => (last.parsed /\ last.ast = CallExprAST("f", <<>>))

\* C15, amended: a call whose argument list ends in a comma fails to parse
\* at the ')' with the one diagnostic of the primary-expression parser; f()
\* parses to a call without arguments; and a call parses exactly when its
\* list is empty or holds arguments separated by single commas.
C15_TrailingCommaRejected ==
  pc = "parsed" =>
    /\ TrailingComma(ArgsBody) =>
         /\ ~last.parsed
         /\ last.diags = <<"Unknown token when expecting an expression">>
         /\ last.stop = Len(input)
    /\ ArgsBody = <<>> => (last.parsed /\ last.ast = CallExprAST("f", <<>>))
    /\ last.parsed <=> (ArgsBody = <<>> \/ Separated(ArgsBody))

\* f(1,) has been rejected at the ')'.
C15_Witness ==
  /\ pc = "parsed"
  /\ input = <<Id("f"), Ch("("), Num(1), Ch(","), Ch(")")>>
  /\ ~last.parsed
  /\ last.diags = <<"Unknown token when expecting an expression">>

\* C16: the driver never stops anywhere but at the return of its loop, and
\* whenever a handler has run, the lexer stands beyond the token the handler
\* was started at.
C16_DispatchLoopReturns ==
  /\ pc \notin {"crashed", "hung"}
  /\ last.kind \in Handlers => pos > last.start

\* The operators of the binary nodes of a tree.
RECURSIVE BinaryOps(_)
RECURSIVE BinaryOpsOfArgs(_, _)
BinaryOpsOfArgs(args, i) ==
  IF i > Len(args) THEN {}
  ELSE BinaryOps(args[i]) \cup BinaryOpsOfArgs(args, i + 1)

BinaryOps(e) ==
  CASE e.node = "Binary" -> {e.op} \cup BinaryOps(e.LHS) \cup BinaryOps(e.RHS)
    [] e.node = "Call" -> BinaryOpsOfArgs(e.args, 1)
    [] e.node = "Function" -> BinaryOps(e.body)
    [] OTHER -> {}

\* C17: every binary node of a parsed unit carries one of < + - *, and no
\* lowering run reports an invalid binary operator.
C17_BinaryOperatorsInTable ==
  /\ (last.kind \in Handlers /\ last.parsed) => BinaryOps(last.ast) \subseteq Operators
  /\ \A i \in DOMAIN last.trace :
       ~(last.trace[i].ev = "LogErrorV"
           /\ last.trace[i].name = "invalid binary operator")

\* 1+2 has been parsed and lowered, and the parser stopped at the '/' that
\* follows it.
C17_Witness ==
  /\ last.kind = "expr"
  /\ last.lowered = "ok"
  /\ last.ast.body = BinaryExprAST("+", NumberExprAST(1), NumberExprAST(2))
  /\ getCurrentToken(last.stop) = Ch("/")
  /\ \E i \in DOMAIN last.trace : last.trace[i] = Event("emit", "fadd", "", 2)

====
